---- MODULE Spec2Model ----
(***************************************************************************)
(* Model of telegram_bot_plug.py: the Bot base class, the Botmaster        *)
(* registry (load / reload / run), the Filewatcher callback and the main   *)
(* start-up loop.  Plugin files are represented by what executing them     *)
(* binds in the module namespace; the dispatcher of python-telegram-bot is *)
(* represented by its ordered handler list.                                *)
(***************************************************************************)
EXTENDS Integers, Sequences, FiniteSets, TLC

\* ------------------------------------------------------------------ bounds
\* number of file-modification notifications delivered by all watchers
MaxEvents == 2

\* ------------------------------------------------------------ configuration
\* Config.masterbots yields one (token, folder) pair per section, in order
Groups == <<"A", "B">>

GroupSet == {Groups[i] : i \in 1..Len(Groups)}

\* the *.py files glob finds in each folder at start-up
StartFiles(g) == IF g = "A" THEN {"a1.py", "a2.py"} ELSE {"b1.py"}

\* paths for which the observer of a folder reports a modification
EventPaths(g) == StartFiles(g) \cup {"notes.txt"}

AllPaths == UNION {EventPaths(g) : g \in GroupSet}

\* the characters of a path (after the directory separator)
Chars(p) ==
  CASE p = "a1.py" -> <<"a", "1", ".", "p", "y">>
    [] p = "a2.py" -> <<"a", "2", ".", "p", "y">>
    [] p = "b1.py" -> <<"b", "1", ".", "p", "y">>
    [] OTHER       -> <<"n", "o", "t", "e", "s", ".", "t", "x", "t">>

\* re.search(".py$", filename): any character, then "py", at the end
MatchesPy(p) ==
  LET s == Chars(p)
  IN  Len(s) >= 3 /\ s[Len(s) - 1] = "p" /\ s[Len(s)] = "y"

\* str.replace(".py", ""): every occurrence of ".py" is dropped
RECURSIVE StripPy(_)
StripPy(s) ==
  IF Len(s) = 0 THEN <<>>
  ELSE IF Len(s) >= 3 /\ s[1] = "." /\ s[2] = "p" /\ s[3] = "y"
       THEN StripPy(SubSeq(s, 4, Len(s)))
       ELSE <<s[1]>> \o StripPy(Tail(s))

\* the dotted module name load_bot imports
ModuleName(g, p) == <<g, StripPy(Chars(p))>>

ModuleNames == {ModuleName(g, p) : g \in GroupSet, p \in AllPaths}

\* the file the import system resolves a module name to, if it exists
HasSourceFile(g, p) ==
  \E q \in StartFiles(g) : Chars(q) = StripPy(Chars(p)) \o <<".", "p", "y">>

\* ------------------------------------------------------------ plugin files
\* values a module namespace can bind
BaseBot == [kind |-> "base", name |-> "Bot", sub |-> TRUE, nh |-> 0,
            init |-> TRUE, raises |-> FALSE]

\* a class deriving from Bot: its constructor calls Bot.__init__ (init),
\* adds nh handlers and then possibly raises
BotClass(n, k, i, r) == [kind |-> "class", name |-> n, sub |-> TRUE, nh |-> k,
                         init |-> i, raises |-> r]

\* a class that does not derive from Bot (e.g. CommandHandler)
OtherClass(n) == [kind |-> "class", name |-> n, sub |-> FALSE, nh |-> 0,
                  init |-> FALSE, raises |-> FALSE]

\* a binding: name and value
B(n, v) == [name |-> n, val |-> v]

ImportLines == <<B("CommandHandler", OtherClass("CommandHandler")), B("Bot", BaseBot)>>

\* custom_fish_bot.py: one handler
FishFile == [syntax |-> FALSE, raises |-> FALSE,
             defs |-> ImportLines \o <<B("TheFishBot", BotClass("TheFishBot", 1, TRUE, FALSE))>>]

\* custom_echo_bot.py: two handlers
EchoFile == [syntax |-> FALSE, raises |-> FALSE,
             defs |-> ImportLines \o <<B("AnotherCustomBot", BotClass("AnotherCustomBot", 2, TRUE, FALSE))>>]

\* a file that only has the imports: no eligible class
NoClassFile == [syntax |-> FALSE, raises |-> FALSE, defs |-> ImportLines]

\* a file that does not compile
SyntaxErrorFile == [syntax |-> TRUE, raises |-> FALSE, defs |-> <<>>]

\* custom_fish_bot.py edited so that its constructor adds the handler and
\* then raises
BadCtorFile == [syntax |-> FALSE, raises |-> FALSE,
                defs |-> ImportLines \o <<B("TheFishBot", BotClass("TheFishBot", 1, TRUE, TRUE))>>]

\* a plugin whose constructor does not call super().__init__(dp)
NoInitFile == [syntax |-> FALSE, raises |-> FALSE,
               defs |-> ImportLines \o <<B("LazyBot", BotClass("LazyBot", 1, FALSE, FALSE))>>]

Contents == {FishFile, EchoFile, NoClassFile, SyntaxErrorFile, BadCtorFile, NoInitFile}

\* ------------------------------------------------- module namespaces
\* attributes every module has before its body runs (__name__, __file__, ..):
\* not classes, so issubclass raises TypeError on them
PlainObject == [kind |-> "object", name |-> "", sub |-> FALSE, nh |-> 0,
                init |-> FALSE, raises |-> FALSE]

FreshDict == <<B("__name__", PlainObject)>>

HasName(d, n) == \E i \in 1..Len(d) : d[i].name = n

\* an assignment in a namespace: an existing key keeps its position
Bind(d, b) ==
  IF HasName(d, b.name)
  THEN [i \in 1..Len(d) |-> IF d[i].name = b.name THEN b ELSE d[i]]
  ELSE Append(d, b)

\* executing a module body in a namespace
RECURSIVE Exec(_, _)
Exec(d, defs) ==
  IF defs = <<>> THEN d ELSE Exec(Bind(d, Head(defs)), Tail(defs))

NoModule == [loaded |-> FALSE, dict |-> <<>>]

\* --------------------------------------------------------------- class Bot
\* a handler object: created by the constructor of instance id of file
Handler(p, id, k) == [file |-> p, id |-> id, k |-> k]

NoHandler == [file |-> "", id |-> 0, k |-> 0]

\* a recorded call on the dispatcher or the import system
Call(op, h, ok) == [op |-> op, h |-> h, ok |-> ok]

\* Dispatcher.add_handler: append to the handler list
DpAdd(dp, h) == Append(dp, h)

\* a remove_handler that leaves the list as it is
DpRemoveNothing(dp, h) == dp

\* a remove_handler that empties the list
DpRemoveAll(dp, h) == <<>>

\* Dispatcher.remove_handler: drop the first occurrence, if any
RECURSIVE DpRemove(_, _)
DpRemove(dp, h) ==
  IF dp = <<>> THEN <<>>
  ELSE IF Head(dp) = h THEN Tail(dp)
       ELSE <<Head(dp)>> \o DpRemove(Tail(dp), h)

\* Bot.__init__: self.dp, self.handlers = []
BotInit(p, id, cname) == [file |-> p, id |-> id, cls |-> cname, sane |-> TRUE, handlers |-> <<>>]

\* an instance whose constructor never called Bot.__init__: no self.handlers
BareInstance(p, id, cname) == [file |-> p, id |-> id, cls |-> cname, sane |-> FALSE, handlers |-> <<>>]

\* an is_sane that does not look for self.handlers
is_sane_always(inst) == TRUE

\* Bot.is_sane: does self.handlers exist
is_sane(inst) == inst.sane

\* Bot.add_handler on the pair (instance, dispatcher, calls)
add_handler(st, h) ==
  IF is_sane(st.inst)
  THEN [inst  |-> [st.inst EXCEPT !.handlers = Append(@, h)],
        dp    |-> DpAdd(st.dp, h),
        calls |-> Append(st.calls, Call("add", h, TRUE))]
  ELSE st

\* Bot.add_handlers: add_handler for each, in order
RECURSIVE add_handlers(_, _)
add_handlers(st, hs) ==
  IF hs = <<>> THEN st ELSE add_handlers(add_handler(st, Head(hs)), Tail(hs))

\* the loop of Bot.remove_handlers from position k on; the failAt-th call of
\* dp.remove_handler raises, which leaves the loop
RECURSIVE RemoveLoop(_, _, _, _)
RemoveLoop(st, hs, k, failAt) ==
  IF k > Len(hs) THEN st
  ELSE IF k = failAt
       THEN [st EXCEPT !.calls = Append(@, Call("remove", hs[k], FALSE))]
       ELSE RemoveLoop([dp    |-> DpRemove(st.dp, hs[k]),
                        calls |-> Append(st.calls, Call("remove", hs[k], TRUE))],
                       hs, k + 1, failAt)

\* a remove_handlers that removes nothing
remove_handlers_none(inst, st, failAt) == st

\* Bot.remove_handlers on (dispatcher, calls); an instance without
\* self.handlers raises AttributeError inside the try
remove_handlers(inst, st, failAt) ==
  IF inst.sane THEN RemoveLoop(st, inst.handlers, 1, failAt) ELSE st

\* ---------------------------------------------------------- class Botmaster
\* self.bots: a key is absent (<<>>) or maps to (imported_module, bot_instance)
\* where bot_instance is an instance or None (<<>>)
Entry(m, inst) == <<[module |-> m, inst |-> inst]>>

\* everything a call of run_bot can read or change
RunState(reg, mods, dp) ==
  [reg |-> reg, mods |-> mods, dp |-> dp, calls |-> <<>>, raised |-> FALSE]

\* Botmaster.get_custom_bot_class: the first name in the namespace bound to
\* a subclass of the namespace's Bot and not called "Bot"; TypeError and
\* AttributeError skip the name
get_custom_bot_class(d) ==
  LET eligible(i) == /\ HasName(d, "Bot")
                     /\ d[i].val.kind \in {"base", "class"}
                     /\ d[i].val.sub
                     /\ d[i].name # "Bot"
      found == {i \in 1..Len(d) : eligible(i)}
  IN  IF found = {} THEN <<>>
      ELSE <<d[CHOOSE i \in found : \A j \in found : i <= j].val>>

\* the object identity of a new instance: any identity no live object of
\* this file holds (the smallest one, as objects are interchangeable)
FreshId(st, p) ==
  LET used == {st.dp[i].id : i \in {j \in 1..Len(st.dp) : st.dp[j].file = p}}
              \cup (IF st.reg[p] # <<>> /\ st.reg[p][1].inst # <<>>
                    THEN {st.reg[p][1].inst[1].id} ELSE {})
  IN  CHOOSE n \in 1..(Cardinality(used) + 1) :
        n \notin used /\ \A k \in 1..(n - 1) : k \in used

\* bot_class(self.dispatcher): the plugin's constructor
Construct(st, p, cls) ==
  LET id == FreshId(st, p)
      s0 == [inst  |-> IF cls.init THEN BotInit(p, id, cls.name)
                       ELSE BareInstance(p, id, cls.name),
             dp    |-> st.dp,
             calls |-> st.calls]
  IN  add_handlers(s0, [k \in 1..cls.nh |-> Handler(p, id, k)])

\* Botmaster.get_custom_bot_instance: result is <<instance>>, <<>> for None;
\* an exception of the constructor is not caught here
get_custom_bot_instance(st, p, m) ==
  LET bot_class == get_custom_bot_class(st.mods[m].dict)
  IN  IF bot_class # <<>>
      THEN LET c == Construct(st, p, bot_class[1])
           IN  [st     |-> [st EXCEPT !.dp = c.dp, !.calls = c.calls,
                                      !.raised = bot_class[1].raises],
                result |-> <<c.inst>>]
      ELSE [st |-> st, result |-> <<>>]

\* a load_bot that returns the module name although the import failed
load_bot_keeps_failed(st, g, p, c) ==
  LET m == ModuleName(g, p)
  IN  IF st.mods[m].loaded
      THEN [st |-> st, result |-> <<m>>]
      ELSE IF ~HasSourceFile(g, p) \/ c.syntax \/ c.raises
           THEN [st |-> [st EXCEPT !.calls = Append(@, Call("import", NoHandler, FALSE))],
                 result |-> <<m>>]
           ELSE [st |-> [st EXCEPT
                           !.mods[m] = [loaded |-> TRUE, dict |-> Exec(FreshDict, c.defs)],
                           !.calls = Append(@, Call("import", NoHandler, TRUE))],
                 result |-> <<m>>]

\* Botmaster.load_bot: importlib.import_module; a module already in
\* sys.modules is returned as it is, a failed import leaves none behind
load_bot(st, g, p, c) ==
  LET m == ModuleName(g, p)
  IN  IF st.mods[m].loaded
      THEN [st |-> st, result |-> <<m>>]
      ELSE IF ~HasSourceFile(g, p) \/ c.syntax \/ c.raises
           THEN [st |-> [st EXCEPT !.calls = Append(@, Call("import", NoHandler, FALSE))],
                 result |-> <<>>]
           ELSE [st |-> [st EXCEPT
                           !.mods[m] = [loaded |-> TRUE, dict |-> Exec(FreshDict, c.defs)],
                           !.calls = Append(@, Call("import", NoHandler, TRUE))],
                 result |-> <<m>>]

\* importlib.reload: the body runs in the existing namespace; a file that
\* does not compile leaves the namespace as it was
ReloadModule(mod, c) ==
  IF c.syntax THEN mod ELSE [mod EXCEPT !.dict = Exec(@, c.defs)]

\* a reload_bot that reloads the module before it removes the handlers
reload_bot_refresh_first(st, g, p, c, failAt) ==
  LET imported_module == st.reg[p][1].module
      custom_bot == st.reg[p][1].inst
      s0 == [dp |-> st.dp,
             calls |-> Append(st.calls,
                              Call("reload", NoHandler, ~(c.syntax \/ c.raises)))]
      s1 == IF custom_bot = <<>> THEN s0
            ELSE remove_handlers(custom_bot[1], s0, failAt)
  IN  [st |-> [st EXCEPT
                 !.dp = s1.dp,
                 !.mods[imported_module] = ReloadModule(@, c),
                 !.calls = s1.calls],
       result |-> <<imported_module>>]

\* Botmaster.reload_bot: remove the handlers of the stored instance, reload
\* the module, return the module whether or not the reload raised
reload_bot(st, g, p, c, failAt) ==
  LET imported_module == st.reg[p][1].module
      custom_bot == st.reg[p][1].inst
      s0 == [dp |-> st.dp, calls |-> st.calls]
      s1 == IF custom_bot = <<>> THEN s0
            ELSE remove_handlers(custom_bot[1], s0, failAt)
  IN  [st |-> [st EXCEPT
                 !.dp = s1.dp,
                 !.mods[imported_module] = ReloadModule(@, c),
                 !.calls = Append(s1.calls,
                                  Call("reload", NoHandler, ~(c.syntax \/ c.raises)))],
       result |-> <<imported_module>>]

\* Botmaster.run_bot
run_bot(st, g, p, c, failAt) ==
  LET r == IF st.reg[p] = <<>> THEN load_bot(st, g, p, c)
           ELSE reload_bot(st, g, p, c, failAt)
  IN  IF r.result # <<>>
      THEN LET i == get_custom_bot_instance(r.st, p, r.result[1])
           IN  IF i.st.raised THEN i.st
               ELSE [i.st EXCEPT !.reg[p] = Entry(r.result[1], i.result)]
      ELSE r.st

\* ------------------------------------------------------------------- state
VARIABLES
  pc,          \* where the main program is: "loop", "loading", "idle", "crashed"
  gi,          \* index in Groups of the group the for loop is at
  todo,        \* files of glob's list that load_all_bots has not run yet
  bots,        \* bots[g]: the dictionary self.bots of the Botmaster of g
  sys_modules, \* the interpreter's table of imported modules
  dispatcher,  \* dispatcher[g]: the handler list of the dispatcher of g
  watcher,     \* watcher[g]: "none", "running", or "dead" (its thread ended)
  callback,    \* callback[g]: the group whose run_bot the watcher of g calls
  events,      \* notifications delivered so far
  last,        \* the last step taken and what it called
  loads,       \* loads[g][p]: the run_bot calls load_all_bots of g made for p
  pending,     \* pending[g]: the event queue of the observer of folder g
  thr          \* thr[t]: a thread inside run_bot, its position and locals

vars == <<pc, gi, todo, bots, sys_modules, dispatcher, watcher, callback, events,
          last, loads, pending, thr>>

NoContent == [syntax |-> FALSE, raises |-> FALSE, defs |-> <<>>]

\* the threads that may be inside one Botmaster's run_bot at a time
Threads == {1, 2}

\* a thread outside run_bot; inside, pc is the statement it is about to
\* execute, bot the value line 124 fetched, module the imported_module,
\* custom_bot the instance line 162 fetched, bot_instance what line 132
\* returned, ov whether another thread was inside run_bot when it entered
NoThread ==
  [pc |-> "idle", g |-> "", p |-> "", c |-> NoContent, bot |-> <<>>, module |-> <<>>,
   custom_bot |-> <<>>, bot_instance |-> <<>>, ov |-> FALSE, raised |-> FALSE]

\* the record of the last notification or run_bot call: its number n, op is
\* "run" (run_bot was called) or "skip" (the watcher ignored the path), by is
\* "main" or the folder of the watcher, g the Botmaster called, p and c the
\* path and what its file held, reload whether self.bots had the key, same
\* whether the call before was a run_bot of the same Botmaster, path and file
\* content, calls what was called on the dispatcher and the import system,
\* raised whether an exception left run_bot
Step(n, op, by, g, p, c, reload, same, calls, raised) ==
  [n |-> n, op |-> op, by |-> by, g |-> g, p |-> p, c |-> c, reload |-> reload,
   same |-> same, calls |-> calls, raised |-> raised]

Init ==
  /\ pc = "loop"
  /\ gi = 1
  /\ todo = {}
  /\ bots = [g \in GroupSet |-> [p \in AllPaths |-> <<>>]]
  /\ sys_modules = [m \in ModuleNames |-> NoModule]
  /\ dispatcher = [g \in GroupSet |-> <<>>]
  /\ watcher = [g \in GroupSet |-> "none"]
  /\ callback = [g \in GroupSet |-> ""]
  /\ events = 0
  /\ last = Step(0, "init", "", "", "", NoContent, FALSE, FALSE, <<>>, FALSE)
  /\ loads = [g \in GroupSet |-> [p \in AllPaths |-> 0]]
  /\ pending = [g \in GroupSet |-> <<>>]
  /\ thr = [t \in Threads |-> NoThread]

\* the effect of self.run_bot(p) on the Botmaster of g
CallRunBot(by, g, p, c, failAt) ==
  LET r == run_bot(RunState(bots[g], sys_modules, dispatcher[g]), g, p, c, failAt)
  IN  /\ bots' = [bots EXCEPT ![g] = r.reg]
      /\ sys_modules' = r.mods
      /\ dispatcher' = [dispatcher EXCEPT ![g] = r.dp]
      /\ last' = Step(last.n + 1, "run", by, g, p, c, bots[g][p] # <<>>,
                      last.op = "run" /\ last.g = g /\ last.p = p /\ last.c = c,
                      r.calls, r.raised)

\* __main__, one turn of the for loop up to Botmaster.__init__'s call of
\* load_all_bots: Updater(token), start_polling (ok: it did not raise),
\* self.bots = {}, glob's list
StartGroup(ok) ==
  /\ pc = "loop"
  /\ pc' = IF ok THEN "loading" ELSE "crashed"
  /\ todo' = IF ok THEN StartFiles(Groups[gi]) ELSE {}
  /\ UNCHANGED <<gi, bots, sys_modules, dispatcher, watcher, callback, events, last,
                 loads, pending, thr>>

\* Botmaster.load_all_bots, one iteration: run_bot on the next file of the
\* list (glob's order is not specified); c is what the file holds
LoadNext(p, c) ==
  /\ pc = "loading"
  /\ p \in todo
  /\ CallRunBot("main", Groups[gi], p, c, 0)
  /\ pc' = IF last'.raised THEN "crashed" ELSE "loading"
  /\ todo' = IF last'.raised THEN {} ELSE todo \ {p}
  /\ loads' = [loads EXCEPT ![Groups[gi]][p] = @ + 1]
  /\ UNCHANGED <<gi, watcher, callback, events, pending, thr>>

\* a callback that is the run_bot of the Botmaster of the last group
WatcherCallbackLast(i) == Groups[Len(Groups)]

\* the callback __main__ hands to the Filewatcher of the i-th group: the
\* run_bot of the Botmaster made in the same turn of the loop
WatcherCallback(i) == Groups[i]

\* a Filewatcher started while load_all_bots still has files to run
StartWatcherEarly ==
  /\ pc = "loading"
  /\ watcher' = [watcher EXCEPT ![Groups[gi]] = "running"]
  /\ callback' = [callback EXCEPT ![Groups[gi]] = WatcherCallback(gi)]
  /\ gi' = gi + 1
  /\ pc' = IF gi = Len(Groups) THEN "idle" ELSE "loop"
  /\ UNCHANGED <<todo, bots, sys_modules, dispatcher, events, last, loads, pending, thr>>

\* Filewatcher.__init__ after load_all_bots returned: the observer thread of
\* the folder starts, with bot_master.run_bot as its callback
StartWatcher ==
  /\ pc = "loading"
  /\ todo = {}
  /\ watcher' = [watcher EXCEPT ![Groups[gi]] = "running"]
  /\ callback' = [callback EXCEPT ![Groups[gi]] = WatcherCallback(gi)]
  /\ gi' = gi + 1
  /\ pc' = IF gi = Len(Groups) THEN "idle" ELSE "loop"
  /\ UNCHANGED <<todo, bots, sys_modules, dispatcher, events, last, loads, pending, thr>>

\* the removals of a reload that the dispatcher can fail: none (0) or the
\* k-th remove_handler call
FailChoices(g, p) ==
  IF bots[g][p] # <<>> /\ bots[g][p][1].inst # <<>>
  THEN 0..Len(bots[g][p][1].inst[1].handlers)
  ELSE {0}

\* Filewatcher.on_modified_file, on the observer thread of folder g, for a
\* modification of path p whose file holds c when it is read; an exception
\* of the callback ends the thread
OnModified(g, p, c, failAt) ==
  /\ p \in EventPaths(g)
  /\ watcher[g] = "running"
  /\ events < MaxEvents
  /\ events' = events + 1
  /\ IF MatchesPy(p)
     THEN /\ CallRunBot(g, callback[g], p, c, failAt)
          /\ watcher' = [watcher EXCEPT ![g] = IF last'.raised THEN "dead" ELSE @]
     ELSE /\ last' = Step(last.n + 1, "skip", g, callback[g], p, NoContent, FALSE,
                          FALSE, <<>>, FALSE)
          /\ UNCHANGED <<bots, sys_modules, dispatcher, watcher>>
  /\ UNCHANGED <<pc, gi, todo, callback, loads, pending, thr>>

\* a deletion that makes the Botmaster forget the file
OnDeletedUnloads(g, p) ==
  /\ p \in EventPaths(g)
  /\ watcher[g] = "running"
  /\ events < MaxEvents
  /\ events' = events + 1
  /\ last' = Step(last.n + 1, "deleted", g, callback[g], p, NoContent, FALSE, FALSE,
                  <<>>, FALSE)
  /\ bots' = [bots EXCEPT ![callback[g]][p] = <<>>]
  /\ UNCHANGED <<pc, gi, todo, sys_modules, dispatcher, watcher, callback,
                 loads, pending, thr>>

\* the observer thread of folder g dispatches the deletion of path p: the
\* FileSystemEventHandler of lines 196-197 has only on_modified replaced, so
\* nothing of this program is called
OnDeleted(g, p) ==
  /\ p \in EventPaths(g)
  /\ watcher[g] = "running"
  /\ events < MaxEvents
  /\ events' = events + 1
  /\ last' = Step(last.n + 1, "deleted", g, callback[g], p, NoContent, FALSE, FALSE,
                  <<>>, FALSE)
  /\ UNCHANGED <<pc, gi, todo, bots, sys_modules, dispatcher, watcher, callback,
                 loads, pending, thr>>

\* the program with the dispatcher of python-telegram-bot, whose
\* remove_handler does not raise for a handler that is in its list
Next ==
  \/ \E ok \in BOOLEAN : StartGroup(ok)
  \/ \E p \in AllPaths, c \in Contents : LoadNext(p, c)
  \/ StartWatcher
  \/ \E g \in GroupSet, p \in AllPaths, c \in Contents : OnModified(g, p, c, 0)
  \/ \E g \in GroupSet, p \in AllPaths : OnDeleted(g, p)

Spec == Init /\ [][Next]_vars

\* on_modified_file with a dispatcher whose remove_handler may raise
OnModifiedFaulty(g, p, c) ==
  /\ watcher[g] = "running"
  /\ \E failAt \in FailChoices(callback[g], p) : OnModified(g, p, c, failAt)

\* the program with a dispatcher whose remove_handler may raise
NextFaulty ==
  \/ \E ok \in BOOLEAN : StartGroup(ok)
  \/ \E p \in AllPaths, c \in Contents : LoadNext(p, c)
  \/ StartWatcher
  \/ \E g \in GroupSet, p \in AllPaths, c \in Contents : OnModifiedFaulty(g, p, c)
  \/ \E g \in GroupSet, p \in AllPaths : OnDeleted(g, p)

SpecFaulty == Init /\ [][NextFaulty]_vars

\* ------------------------------------------- run_bot, statement by statement
\* what a thread sees of the Botmaster of g
Shared(g) == RunState(bots[g], sys_modules, dispatcher[g])

\* a thread is between the first and the last statement of run_bot
Inside(t) == thr[t].pc \notin {"idle", "done"}

\* the thread leaves run_bot; its locals are gone
Leave(t, raised) ==
  [NoThread EXCEPT !.pc = "done", !.g = thr[t].g, !.p = thr[t].p,
                   !.ov = thr[t].ov, !.raised = raised]

\* run_bot is entered for path p of folder g while no main-program code runs;
\* a thread that enters while another is inside is called on the same path.
\* Line 124 and the test of line 126: bot = self.bots.get(bot_file_name)
TGet(t, g, p, c) ==
  /\ pc = "idle" /\ watcher[g] = "running"
  /\ thr[t].pc = "idle"
  /\ p \in EventPaths(g) /\ MatchesPy(p)
  /\ \A u \in Threads \ {t} : Inside(u) => thr[u].g = g /\ thr[u].p = p
  /\ thr' = [thr EXCEPT ![t] =
               [NoThread EXCEPT !.pc = IF bots[callback[g]][p] = <<>> THEN "load" ELSE "reload",
                                !.g = callback[g], !.p = p, !.c = c,
                                !.bot = bots[callback[g]][p],
                                !.ov = \E u \in Threads \ {t} : Inside(u)]]
  /\ UNCHANGED <<pc, gi, todo, bots, sys_modules, dispatcher, watcher, callback,
                 events, last, loads, pending>>

\* line 127: imported_module = self.load_bot(bot_file_name), and line 131
TLoad(t) ==
  /\ thr[t].pc = "load"
  /\ LET r == load_bot(Shared(thr[t].g), thr[t].g, thr[t].p, thr[t].c)
     IN  /\ sys_modules' = r.st.mods
         /\ thr' = [thr EXCEPT ![t] =
                      IF r.result = <<>> THEN Leave(t, FALSE)
                      ELSE [@ EXCEPT !.pc = "instance", !.module = r.result]]
  /\ UNCHANGED <<pc, gi, todo, bots, dispatcher, watcher, callback, events, last,
                 loads, pending>>

\* line 162: imported_module, custom_bot = self.bots[bot_file_name]
TFetch(t) ==
  /\ thr[t].pc = "reload"
  /\ thr' = [thr EXCEPT ![t] =
               [@ EXCEPT !.pc = "remove",
                         !.module = <<bots[thr[t].g][thr[t].p][1].module>>,
                         !.custom_bot = bots[thr[t].g][thr[t].p][1].inst]]
  /\ UNCHANGED <<pc, gi, todo, bots, sys_modules, dispatcher, watcher, callback,
                 events, last, loads, pending>>

\* lines 163-166: custom_bot.remove_handlers() inside its try
TRemove(t) ==
  /\ thr[t].pc = "remove"
  /\ dispatcher' =
       IF thr[t].custom_bot = <<>> THEN dispatcher
       ELSE [dispatcher EXCEPT ![thr[t].g] =
               remove_handlers(thr[t].custom_bot[1], [dp |-> @, calls |-> <<>>], 0).dp]
  /\ thr' = [thr EXCEPT ![t].pc = "refresh"]
  /\ UNCHANGED <<pc, gi, todo, bots, sys_modules, watcher, callback, events, last,
                 loads, pending>>

\* lines 168-174: importlib.reload(imported_module) inside its try
TRefresh(t) ==
  /\ thr[t].pc = "refresh"
  /\ sys_modules' = [sys_modules EXCEPT ![thr[t].module[1]] = ReloadModule(@, thr[t].c)]
  /\ thr' = [thr EXCEPT ![t].pc = "instance"]
  /\ UNCHANGED <<pc, gi, todo, bots, dispatcher, watcher, callback, events, last,
                 loads, pending>>

\* line 132: bot_instance = self.get_custom_bot_instance(imported_module);
\* an exception of the constructor leaves run_bot
TInstance(t) ==
  /\ thr[t].pc = "instance"
  /\ LET i == get_custom_bot_instance(Shared(thr[t].g), thr[t].p, thr[t].module[1])
     IN  /\ dispatcher' = [dispatcher EXCEPT ![thr[t].g] = i.st.dp]
         /\ thr' = [thr EXCEPT ![t] =
                      IF i.st.raised THEN Leave(t, TRUE)
                      ELSE [@ EXCEPT !.pc = "store", !.bot_instance = i.result]]
  /\ UNCHANGED <<pc, gi, todo, bots, sys_modules, watcher, callback, events, last,
                 loads, pending>>

\* line 133: self.bots[bot_file_name] = (imported_module, bot_instance)
TStore(t) ==
  /\ thr[t].pc = "store"
  /\ bots' = [bots EXCEPT ![thr[t].g][thr[t].p] =
                 Entry(thr[t].module[1], thr[t].bot_instance)]
  /\ thr' = [thr EXCEPT ![t] = Leave(t, FALSE)]
  /\ UNCHANGED <<pc, gi, todo, sys_modules, dispatcher, watcher, callback, events,
                 last, loads, pending>>

\* the program when run_bot of one Botmaster is entered from two threads,
\* once each, with nothing that keeps the second out while the first is in
NextOverlap ==
  \/ \E ok \in BOOLEAN : StartGroup(ok)
  \/ \E p \in AllPaths, c \in Contents : LoadNext(p, c)
  \/ StartWatcher
  \/ \E t \in Threads, g \in GroupSet, p \in AllPaths, c \in Contents : TGet(t, g, p, c)
  \/ \E t \in Threads : TLoad(t)
  \/ \E t \in Threads : TFetch(t)
  \/ \E t \in Threads : TRemove(t)
  \/ \E t \in Threads : TRefresh(t)
  \/ \E t \in Threads : TInstance(t)
  \/ \E t \in Threads : TStore(t)

SpecOverlap == Init /\ [][NextOverlap]_vars

\* ------------------------------------------------ the observer's event queue
\* the file system reports a modification of path p in folder g, which has
\* an observer scheduled (line 200); the event waits in the observer's queue
Notify(g, p) ==
  /\ p \in EventPaths(g)
  /\ watcher[g] # "none"
  /\ events < MaxEvents
  /\ events' = events + 1
  /\ pending' = [pending EXCEPT ![g] = Append(@, p)]
  /\ UNCHANGED <<pc, gi, todo, bots, sys_modules, dispatcher, watcher, callback,
                 last, loads, thr>>

\* the observer thread of folder g takes the oldest event of its queue and
\* calls Filewatcher.on_modified_file with it; c is what the file holds
\* then. An exception of the callback ends the thread
Deliver(g, c) ==
  /\ watcher[g] = "running"
  /\ pending[g] # <<>>
  /\ pending' = [pending EXCEPT ![g] = Tail(@)]
  /\ LET p == Head(pending[g])
     IN  IF MatchesPy(p)
         THEN /\ CallRunBot(g, callback[g], p, c, 0)
              /\ watcher' = [watcher EXCEPT ![g] = IF last'.raised THEN "dead" ELSE @]
         ELSE /\ last' = Step(last.n + 1, "skip", g, callback[g], p, NoContent, FALSE,
                              FALSE, <<>>, FALSE)
              /\ UNCHANGED <<bots, sys_modules, dispatcher, watcher>>
  /\ UNCHANGED <<pc, gi, todo, callback, events, loads, thr>>

\* the program with notifications that wait for the observer thread
NextQueue ==
  \/ \E ok \in BOOLEAN : StartGroup(ok)
  \/ \E p \in AllPaths, c \in Contents : LoadNext(p, c)
  \/ StartWatcher
  \/ \E g \in GroupSet, p \in AllPaths : Notify(g, p)
  \/ \E g \in GroupSet, c \in Contents : Deliver(g, c)

SpecQueue == Init /\ [][NextQueue]_vars

TypeOK ==
  /\ pc \in {"loop", "loading", "idle", "crashed"}
  /\ gi \in 1..(Len(Groups) + 1)
  /\ events \in 0..MaxEvents
  /\ \A g \in GroupSet : watcher[g] \in {"none", "running", "dead"}

\* ------------------------------------------------------------- vocabulary
Range(s) == {s[i] : i \in 1..Len(s)}

\* the handlers in a dispatcher list that instances of file p created
OfFile(dp, p) == SelectSeq(dp, LAMBDA h : h.file = p)

\* the entry of p in registry b[g] holds a BotInstance
HasInstanceIn(b, g, p) == b[g][p] # <<>> /\ b[g][p][1].inst # <<>>

HasInstance(g, p) == HasInstanceIn(bots, g, p)

CurrentInst(g, p) == bots[g][p][1].inst[1]

\* the step taken is a call of run_bot
RanBot == last'.n = last.n + 1 /\ last'.op = "run"

\* the step taken is a call of run_bot that reloads an entry with an instance
RanReload == RanBot /\ last'.reload /\ HasInstance(last'.g, last'.p)

\* the class a first import of content c would find
FirstClassOf(c) == get_custom_bot_class(Exec(FreshDict, c.defs))

\* content that compiles, runs, and defines a bot class that constructs
ValidContent(c) ==
  /\ ~c.syntax /\ ~c.raises
  /\ FirstClassOf(c) # <<>>
  /\ ~FirstClassOf(c)[1].raises

HasCall(calls, op) == \E i \in 1..Len(calls) : calls[i].op = op

\* ------------------------------------------------------------------ claims

\* C1: every identity whose registry entry holds a BotInstance has exactly
\* one current instance, and every handler of that instance is registered
\* with the dispatcher of its group.
C1_CurrentIsRegistered ==
  \A g \in GroupSet, p \in AllPaths :
    HasInstance(g, p) =>
      /\ Len(bots[g][p][1].inst) = 1
      /\ \A h \in Range(CurrentInst(g, p).handlers) : h \in Range(dispatcher[g])

\* C2: a handler is registered with the dispatcher of a group if and only
\* if it belongs to the current instance of some identity of that group.
C2_RegisteredIffCurrent ==
  \A g \in GroupSet :
    LET current == UNION {Range(CurrentInst(g, p).handlers) :
                            p \in {q \in AllPaths : HasInstance(g, q)}}
    IN  Range(dispatcher[g]) = current

\* C3: in a reload of an identity with a current instance, the calls are, in
\* this order: remove_handler for each handler of the previous instance, the
\* refresh of the code unit, add_handler for the handlers of the new
\* instance; no add_handler precedes a remove_handler.
C3_TeardownBeforeRefresh ==
  [][RanReload =>
       LET old == CurrentInst(last'.g, last'.p).handlers
           calls == last'.calls
           n == Len(old)
       IN  /\ Len(calls) >= n + 1
           /\ \A k \in 1..n : calls[k].op = "remove" /\ calls[k].h = old[k]
           /\ calls[n + 1].op = "reload"
           /\ \A j \in (n + 2)..Len(calls) :
                calls[j].op = "add" /\ calls[j].h \notin Range(old)]_vars

\* C3 witness: a reload that removed a handler, refreshed, and added one
C3_Witness ==
  /\ last.op = "run" /\ last.reload
  /\ \E i, j, k \in 1..Len(last.calls) :
       /\ i < j /\ j < k
       /\ last.calls[i].op = "remove"
       /\ last.calls[j].op = "reload"
       /\ last.calls[k].op = "add"

\* C4: in a teardown where the removal of one handler fails, removal of
\* every other handler of the instance is still attempted and performed.
C4_TeardownBestEffort ==
  [][RanReload =>
       LET old == CurrentInst(last'.g, last'.p).handlers
           calls == last'.calls
       IN  \A k \in 1..Len(old) :
             /\ \E i \in 1..Len(calls) : calls[i].op = "remove" /\ calls[i].h = old[k]
             /\ (\A i \in 1..Len(calls) :
                   calls[i].op = "remove" /\ calls[i].h = old[k] => calls[i].ok)
                => old[k] \notin Range(dispatcher'[last'.g])]_vars

\* C5: when the reload of a loaded identity fails at the refresh (syntax
\* error), the previous handlers are unregistered, no new instance is
\* created, the entry has no current instance and no handler of the
\* identity is registered.
C5_FailedRefreshLeavesNothing ==
  [][RanReload /\ last'.c.syntax =>
       /\ ~HasCall(last'.calls, "add")
       /\ ~HasInstanceIn(bots', last'.g, last'.p)
       /\ OfFile(dispatcher'[last'.g], last'.p) = <<>>]_vars

\* C6: no exception leaves run_bot; after an import or syntax error, a
\* missing bot class or a constructor exception the entry has no BotInstance.
C6_RunNeverRaises ==
  last.op = "run" =>
    /\ ~last.raised
    /\ (last.raised \/ \E i \in 1..Len(last.calls) : ~last.calls[i].ok)
         => ~HasInstance(last.g, last.p)

\* C7: when the code unit obtained by a load or a reload defines no eligible
\* bot class in its current content, run_bot creates no instance, registers
\* no handler, leaves the entry without BotInstance and does not raise.
C7_NoClassNoInstance ==
  [][(RanBot /\ ~last'.c.syntax /\ ~last'.c.raises /\ FirstClassOf(last'.c) = <<>>) =>
       /\ ~HasCall(last'.calls, "add")
       /\ ~HasInstanceIn(bots', last'.g, last'.p)
       /\ ~last'.raised]_vars

\* C8: a second run_bot with unchanged valid content yields a current
\* instance of the same class with as many handlers as the first, made of
\* new handlers, and as many handlers of the identity are registered after
\* the second call as after the first.
C8_RepeatRunSameShape ==
  [][(RanBot /\ last'.same /\ ValidContent(last'.c)) =>
       /\ HasInstance(last'.g, last'.p)
       /\ HasInstanceIn(bots', last'.g, last'.p)
       /\ LET old == CurrentInst(last'.g, last'.p)
               new == bots'[last'.g][last'.p][1].inst[1]
           IN  /\ new.cls = old.cls
               /\ Len(new.handlers) = Len(old.handlers)
               /\ Range(new.handlers) \cap Range(old.handlers) = {}
               /\ Len(OfFile(dispatcher'[last'.g], last'.p))
                    = Len(OfFile(dispatcher[last'.g], last'.p))
               /\ Len(OfFile(dispatcher'[last'.g], last'.p)) = Len(new.handlers)]_vars

\* C8 witness: the second of two run_bot calls with the same valid content
\* left an instance with a handler
C8_Witness ==
  /\ last.op = "run" /\ last.same /\ ValidContent(last.c) /\ ~last.raised
  /\ HasInstance(last.g, last.p)
  /\ Len(CurrentInst(last.g, last.p).handlers) >= 1

\* the modules the entries of registry g refer to
ModulesOf(g) == {bots[g][p][1].module : p \in {q \in AllPaths : bots[g][q] # <<>>}}

\* C9: a notification in the folder of a group calls run_bot on the
\* Botmaster of that group only, and no step of a group changes the registry,
\* the modules or the dispatcher's handlers of another group.
C9_GroupsIndependent ==
  [][last'.n = last.n + 1 =>
       LET acting == IF last'.by = "main" THEN last'.g ELSE last'.by
       IN  /\ last'.g = acting
           /\ \A o \in GroupSet \ {acting} :
                /\ bots'[o] = bots[o]
                /\ dispatcher'[o] = dispatcher[o]
                /\ \A m \in ModulesOf(o) : sys_modules'[m] = sys_modules[m]]_vars

\* C9 witness: the watcher of A reloaded a plugin of A while B has a
\* running plugin with a registered handler
C9_Witness ==
  /\ last.op = "run" /\ last.by = "A" /\ last.reload
  /\ HasInstance("B", "b1.py")
  /\ Range(CurrentInst("B", "b1.py").handlers) # {}
  /\ Range(CurrentInst("B", "b1.py").handlers) \subseteq Range(dispatcher["B"])

\* C10: run_bot for one identity leaves every other identity of the same
\* registry as it was: its entry, its module and its registered handlers.
C10_OtherIdentitiesUntouched ==
  [][RanBot =>
       \A q \in AllPaths \ {last'.p} :
         /\ bots'[last'.g][q] = bots[last'.g][q]
         /\ OfFile(dispatcher'[last'.g], q) = OfFile(dispatcher[last'.g], q)
         /\ bots[last'.g][q] # <<>> =>
              sys_modules'[bots[last'.g][q][1].module]
                = sys_modules[bots[last'.g][q][1].module]]_vars

\* C10 witness: a reload that removed handlers, in a registry where another
\* identity has a current instance with a registered handler
C10_Witness ==
  /\ last.op = "run" /\ last.reload /\ HasCall(last.calls, "remove")
  /\ \E q \in AllPaths \ {last.p} :
       /\ HasInstance(last.g, q)
       /\ OfFile(dispatcher[last.g], q) # <<>>

\* C11: a start-up failure of one group (start_polling raises, or a plugin
\* of its folder fails in load_all_bots) aborts at most that group: once the
\* main program has stopped, every other group has its watcher started.
C11_StartupFailureConfined ==
  pc = "crashed" =>
    \A g \in GroupSet \ {Groups[gi]} : watcher[g] # "none"

\* the calls of a run_bot all succeeded and no exception left it
CycleSucceeded(step) ==
  ~step.raised /\ \A i \in 1..Len(step.calls) : step.calls[i].ok

\* C12: an instance becomes current only in a load/reload cycle that
\* succeeds; teardown is invoked on an instance only by the reload that
\* replaces it, and never on an instance whose handlers were already removed.
C12_CreatedAndTornDownOnce ==
  [][RanBot =>
       /\ (HasInstanceIn(bots', last'.g, last'.p)
             /\ bots'[last'.g][last'.p] # bots[last'.g][last'.p])
            => CycleSucceeded(last')
       /\ RanReload =>
            /\ Range(CurrentInst(last'.g, last'.p).handlers)
                  \subseteq Range(dispatcher[last'.g])
            /\ bots'[last'.g][last'.p] # bots[last'.g][last'.p]]_vars

\* C13: run_bot imports (load) when the key is not in self.bots and reloads
\* when it is; a load whose import fails stores no entry, leaves no module
\* and registers no handler, so that the next run_bot loads again.
C13_LoadOrReload ==
  [][RanBot =>
       LET g == last'.g
           p == last'.p
           calls == last'.calls
       IN  /\ bots[g][p] = <<>> =>
                /\ HasCall(calls, "import")
                /\ ~HasCall(calls, "reload") /\ ~HasCall(calls, "remove")
           /\ bots[g][p] # <<>> =>
                /\ HasCall(calls, "reload") /\ ~HasCall(calls, "import")
           /\ (bots[g][p] = <<>> /\ ~calls[1].ok) =>
                /\ bots'[g][p] = <<>>
                /\ ~sys_modules'[ModuleName(g, p)].loaded
                /\ dispatcher'[g] = dispatcher[g]
                /\ ~last'.raised]_vars

\* C13 witness: the watcher's run_bot for a start-up file loaded it, its
\* first load having failed at the import, and the plugin now runs
C13_Witness ==
  /\ last.op = "run" /\ last.by # "main" /\ ~last.reload
  /\ last.p \in StartFiles(last.g)
  /\ HasInstance(last.g, last.p)
  /\ OfFile(dispatcher[last.g], last.p) # <<>>

\* a handler registered with the dispatcher of g that belongs to an
\* instance of file p which is not the current instance of p
StaleHandler(g, p) ==
  \E h \in Range(OfFile(dispatcher[g], p)) :
    ~(HasInstance(g, p) /\ h \in Range(CurrentInst(g, p).handlers))

\* both threads have been through run_bot and no exception left it
BothFinished ==
  \A t \in Threads : thr[t].pc = "done" /\ ~thr[t].raised

\* C14: run_bot has no mutual exclusion per identity. When two executions
\* of run_bot have finished normally, a handler of an instance that is not
\* the current one is still registered only if the two executions
\* overlapped; with overlap such a state is reachable (C14_Witness).
C14_StaleOnlyByOverlap ==
  (BothFinished /\ \E g \in GroupSet, p \in AllPaths : StaleHandler(g, p))
    => \E t \in Threads : thr[t].ov

\* C14 witness: two overlapping run_bot of one identity have both finished
\* and a handler of a replaced instance is registered next to the current one
C14_Witness ==
  /\ BothFinished
  /\ thr[1].g = thr[2].g /\ thr[1].p = thr[2].p
  /\ \E t \in Threads : thr[t].ov
  /\ HasInstance(thr[1].g, thr[1].p)
  /\ StaleHandler(thr[1].g, thr[1].p)

\* load_all_bots of the Botmaster of g has run to its end: one run_bot call
\* for every .py file directly in the folder, none for any other path
LoadAllDone(g) ==
  /\ \A p \in AllPaths : loads[g][p] = IF p \in StartFiles(g) THEN 1 ELSE 0
  /\ ~(pc = "loading" /\ Groups[gi] = g)

\* C15: the watcher of a group exists only after load_all_bots of the
\* Botmaster it calls has run to completion, so a run_bot called by a
\* watcher never falls into the start-up loading of its registry.
C15_LoadAllBeforeWatcher ==
  /\ \A g \in GroupSet : watcher[g] # "none" => LoadAllDone(callback[g])
  /\ (last.op = "run" /\ last.by # "main") => LoadAllDone(last.g)

\* C15 witness: the watcher of the first group called run_bot while the
\* main program was loading the folder of the second
C15_Witness ==
  /\ last.op = "run" /\ last.by = Groups[1] /\ last.g = Groups[1]
  /\ LoadAllDone(Groups[1])
  /\ pc = "loading" /\ gi = 2 /\ todo # {}

\* C16: every modification notification for a .py file of a watched folder
\* gets its own run_bot call, also after an earlier run_bot of the group has
\* failed: a notification that waits in the queue of a folder still has an
\* observer thread that will take it, and each delivery takes one
\* notification and makes one call.
C16_EveryNotificationRuns ==
  \A g \in GroupSet : pending[g] # <<>> => watcher[g] = "running"

\* the step taken is the delivery of a deletion
Deleted == last'.n = last.n + 1 /\ last'.op = "deleted"

\* C17: no step removes a key of self.bots, and the deletion of a plugin
\* file calls neither run_bot nor remove_handlers: registry, modules and
\* dispatcher stay as they are, so the handlers of the current instance of
\* the deleted file stay registered.
C17_EntriesOnlyGrow ==
  [][/\ \A g \in GroupSet, p \in AllPaths : bots[g][p] # <<>> => bots'[g][p] # <<>>
     /\ Deleted =>
          /\ last'.calls = <<>>
          /\ bots' = bots /\ sys_modules' = sys_modules /\ dispatcher' = dispatcher
          /\ HasInstance(last'.g, last'.p) =>
               Range(CurrentInst(last'.g, last'.p).handlers)
                 \subseteq Range(dispatcher'[last'.g])]_vars

\* C17 witness: a loaded plugin file with registered handlers was deleted,
\* its instance is still current and its handlers are still registered
C17_Witness ==
  /\ last.op = "deleted"
  /\ HasInstance(last.g, last.p)
  /\ CurrentInst(last.g, last.p).handlers # <<>>
  /\ Range(CurrentInst(last.g, last.p).handlers) \subseteq Range(dispatcher[last.g])

\* the class run_bot hands to the constructor in the step taken: the one
\* get_custom_bot_class finds in the module as it is after the load or reload
ClassRun ==
  IF sys_modules'[ModuleName(last'.g, last'.p)].loaded
  THEN get_custom_bot_class(sys_modules'[ModuleName(last'.g, last'.p)].dict)
  ELSE <<>>

\* C18: add_handler and add_handlers on an instance whose constructor did
\* not call Bot.__init__ register nothing with the dispatcher, store
\* nothing in the instance and raise nothing: a run_bot that constructs
\* such an instance makes no add_handler call on the dispatcher, adds no
\* handler to its list, and stores the instance without handlers.
C18_UninitialisedAddsNothing ==
  [][(RanBot /\ ClassRun # <<>> /\ ~ClassRun[1].init) =>
       /\ ClassRun[1].nh > 0
       /\ ~last'.raised
       /\ ~HasCall(last'.calls, "add")
       /\ Range(dispatcher'[last'.g]) \subseteq Range(dispatcher[last'.g])
       /\ HasInstanceIn(bots', last'.g, last'.p)
       /\ bots'[last'.g][last'.p][1].inst[1].handlers = <<>>
       /\ ~bots'[last'.g][last'.p][1].inst[1].sane]_vars

\* C18 witness: run_bot constructed an instance of a class that skips
\* Bot.__init__ and calls add_handler, in a group with registered handlers
C18_Witness ==
  /\ last.op = "run" /\ ~last.raised
  /\ HasInstance(last.g, last.p)
  /\ ~CurrentInst(last.g, last.p).sane
  /\ CurrentInst(last.g, last.p).cls = "LazyBot"
  /\ ~HasCall(last.calls, "add")
  /\ dispatcher[last.g] # <<>>

\* the file content defines a class that get_custom_bot_class accepts
DefinesBotClass(c) == ~c.syntax /\ ~c.raises /\ FirstClassOf(c) # <<>>

\* C19: a run_bot for a key whose entry is (module, None) takes the reload
\* path (reload is called, import_module is not), its call of
\* remove_handlers on None removes nothing and is caught, and if the file
\* now defines an eligible class a new instance becomes current with all
\* its handlers registered.
C19_NoneEntryRecovers ==
  [][(RanBot /\ bots[last'.g][last'.p] # <<>> /\ ~HasInstance(last'.g, last'.p)) =>
       LET g == last'.g  p == last'.p
       IN  /\ last'.reload
           /\ HasCall(last'.calls, "reload")
           /\ ~HasCall(last'.calls, "import") /\ ~HasCall(last'.calls, "remove")
           /\ DefinesBotClass(last'.c) =>
                /\ HasInstanceIn(bots', g, p)
                /\ bots'[g][p][1].inst[1].cls = FirstClassOf(last'.c)[1].name
                /\ Range(bots'[g][p][1].inst[1].handlers)
                      \subseteq Range(dispatcher'[g])]_vars
====
